---- MODULE Spec2Model ----
(***************************************************************************)
(* The zclsyntax body/block parser (parser.go): ParseBody, ParseBodyItem,  *)
(* finishParsingBodyBlock, parseQuotedStringLiteral, decodeStringLit and   *)
(* the recovery functions recover, recoverOver and recoverAfterBodyItem,   *)
(* as a machine with an explicit call stack over a token sequence.         *)
(*                                                                         *)
(* Positions are abstract: token number i of the stream has the range      *)
(* [i, i+1).  Inside decodeStringLit positions are (Line, Column, Byte).   *)
(***************************************************************************)
EXTENDS Integers, Sequences, FiniteSets, TLC

VARIABLES
    tokens,     \* peeker.Tokens: the token sequence, its last element TokenEOF
    NextIndex,  \* peeker.NextIndex (1-based here)
    recovery,   \* parser.recovery
    stack,      \* the activations of the parser's functions, innermost last
    retval,     \* what the activation that returned last returned
    panicked,   \* a panic() was reached
    entry,      \* the function the run was started with, and its argument
    reads,      \* number of calls of peeker.Read so far
    steps,      \* number of steps taken so far
    dec         \* the activation of decodeStringLit under SpecDecode

vars == <<tokens, NextIndex, recovery, stack, retval, panicked, entry, reads, steps, dec>>

(***************************************************************************)
(* Bounds of the model.                                                    *)
(***************************************************************************)
\* longest free token sequence (before end-of-file) handed to the parser
MaxLen == 3
\* longest free token sequence handed to a recovery function
MaxRecLen == 2
\* longest bracket sequence handed to a recovery function
MaxNest == 4
\* largest number of pieces of a structured token sequence
MaxPieces == 3
\* longest literal (in graphemes) handed to decodeStringLit
MaxLit == 4

(***************************************************************************)
(* Token types.                                                            *)
(***************************************************************************)
TokenNil == "TokenNil"
TokenEOF == "TokenEOF"
TokenIdent == "TokenIdent"
TokenEqual == "TokenEqual"
TokenNewline == "TokenNewline"
TokenOBrace == "TokenOBrace"
TokenCBrace == "TokenCBrace"
TokenOBrack == "TokenOBrack"
TokenCBrack == "TokenCBrack"
TokenOParen == "TokenOParen"
TokenCParen == "TokenCParen"
TokenOQuote == "TokenOQuote"
TokenCQuote == "TokenCQuote"
TokenOHeredoc == "TokenOHeredoc"
TokenCHeredoc == "TokenCHeredoc"
TokenQuotedLit == "TokenQuotedLit"
TokenStringLit == "TokenStringLit"
TokenTemplateInterp == "TokenTemplateInterp"
TokenTemplateControl == "TokenTemplateControl"
TokenTemplateSeqEnd == "TokenTemplateSeqEnd"

Openers ==
    {TokenOBrace, TokenOBrack, TokenOParen, TokenOQuote, TokenOHeredoc,
     TokenTemplateInterp, TokenTemplateControl}

Closers == {TokenCBrace, TokenCBrack, TokenCParen, TokenCQuote, TokenCHeredoc}

Bracketers == Openers \cup Closers \cup {TokenTemplateSeqEnd}

TokenTypes ==
    Bracketers \cup
    {TokenIdent, TokenEqual, TokenNewline, TokenQuotedLit, TokenStringLit, TokenEOF}

(***************************************************************************)
(* Ranges and diagnostics.                                                 *)
(***************************************************************************)
Min(a, b) == IF a <= b THEN a ELSE b

Max(a, b) == IF a >= b THEN a ELSE b

\* zcl.Pos
Pos(line, column, byte) == [Line |-> line, Column |-> column, Byte |-> byte]

\* zcl.Range (the file name is left out: there is one file)
Range(s, e) == [Start |-> s, End |-> e]

\* where token number i of the stream starts: tokens are one column and one byte wide
TokPos(i) == Pos(1, i, i - 1)

TokRange(i) == Range(TokPos(i), TokPos(i + 1))

\* the zero value of zcl.Range (also the range of the zero Token)
ZeroRange == Range(Pos(0, 0, 0), Pos(0, 0, 0))

\* a nil *zcl.Range
NoRange == Range(Pos(-1, -1, -1), Pos(-1, -1, -1))

\* zcl.RangeBetween: the smallest range spanning both
RangeBetween(a, b) ==
    Range(IF a.Start.Byte <= b.Start.Byte THEN a.Start ELSE b.Start,
          IF a.End.Byte >= b.End.Byte THEN a.End ELSE b.End)

DiagError == "error"

Diag(summary, detail, subject, context) ==
    [Severity |-> DiagError, Summary |-> summary, Detail |-> detail,
     Subject |-> subject, Context |-> context]

HasErrors(diags) == \E i \in 1..Len(diags) : diags[i].Severity = DiagError

(***************************************************************************)
(* The token source.                                                       *)
(***************************************************************************)
Tok(type, bytes) == [Type |-> type, Bytes |-> bytes]

ZeroToken == [Type |-> TokenNil, Bytes |-> <<>>, Range |-> ZeroRange]

\* the tokens of the stream s (types and bytes), each with its range, then end-of-file
MkTokens(s) ==
    [i \in 1..(Len(s) + 1) |->
        IF i <= Len(s)
        THEN [Type |-> s[i].Type, Bytes |-> s[i].Bytes, Range |-> TokRange(i)]
        ELSE [Type |-> TokenEOF, Bytes |-> <<>>, Range |-> TokRange(i)]]

\* peeker.Peek: the token at the front; end-of-file on every read past the end
Peek == tokens[Min(NextIndex, Len(tokens))]

\* peeker.Read: its effect on the peeker (the token it returns is Peek)
Read ==
    /\ NextIndex' = Min(NextIndex + 1, Len(tokens) + 1)
    /\ reads' = reads + 1

NextRange == Peek.Range

\* peeker.PrevRange before the step
PrevRange == IF NextIndex = 1 THEN NextRange ELSE tokens[NextIndex - 1].Range

\* peeker.PrevRange right after a Read in the same step
PrevRangeAfterRead == Peek.Range

\* tokens not yet consumed, end-of-file included
Remaining == Len(tokens) + 1 - NextIndex

(***************************************************************************)
(* oppositeBracket                                                         *)
(***************************************************************************)
oppositeBracket(ty) ==
    CASE ty = TokenOBrace -> TokenCBrace
      [] ty = TokenOBrack -> TokenCBrack
      [] ty = TokenOParen -> TokenCParen
      [] ty = TokenOQuote -> TokenCQuote
      [] ty = TokenOHeredoc -> TokenCHeredoc
      [] ty = TokenCBrace -> TokenOBrace
      [] ty = TokenCBrack -> TokenOBrack
      [] ty = TokenCParen -> TokenOParen
      [] ty = TokenCQuote -> TokenOQuote
      [] ty = TokenCHeredoc -> TokenOHeredoc
      [] ty = TokenTemplateControl -> TokenTemplateSeqEnd
      [] ty = TokenTemplateInterp -> TokenTemplateSeqEnd
      [] ty = TokenTemplateSeqEnd -> TokenTemplateInterp
      [] OTHER -> TokenNil

(***************************************************************************)
(* The call stack.                                                         *)
(***************************************************************************)
Top == stack[Len(stack)]

Pop == SubSeq(stack, 1, Len(stack) - 1)

SetTop(f) == [stack EXCEPT ![Len(stack)] = f]

Push(caller, callee) == Append(SetTop(caller), callee)

Running == stack # <<>> /\ ~panicked

In(fn, pc) == Running /\ Top.fn = fn /\ Top.pc = pc

NoValue == [kind |-> "none"]

Step == steps' = steps + 1

\* the activation records of the recovery functions, as their callers create them
Frame_recover(end) ==
    [fn |-> "recover", pc |-> "begin", end |-> end, start |-> TokenNil, nest |-> 0]

Frame_recoverOver(start) ==
    [fn |-> "recoverOver", pc |-> "find", start |-> start, end |-> oppositeBracket(start)]

Frame_recoverAfterBodyItem ==
    [fn |-> "recoverAfterBodyItem", pc |-> "begin", open |-> <<>>, from |-> 0]

(***************************************************************************)
(* recover(end)                                                            *)
(***************************************************************************)
\* recover_begin without p.recovery = true
recover_begin_noFlag ==
    /\ In("recover", "begin")
    /\ recovery' = recovery
    /\ stack' = SetTop([Top EXCEPT !.pc = "loop", !.start = oppositeBracket(Top.end),
                                   !.nest = 0])
    /\ Step
    /\ UNCHANGED <<tokens, NextIndex, retval, panicked, entry, reads, dec>>

recover_begin ==
    /\ In("recover", "begin")
    /\ recovery' = TRUE
    /\ stack' = SetTop([Top EXCEPT !.pc = "loop", !.start = oppositeBracket(Top.end),
                                   !.nest = 0])
    /\ Step
    /\ UNCHANGED <<tokens, NextIndex, retval, panicked, entry, reads, dec>>

\* recoverType without the normalization of TokenTemplateControl
recoverType_plain(end, ty) == ty

\* the type recover matches a token of type ty against, looking for `end`
recoverType(end, ty) ==
    IF end = TokenTemplateSeqEnd /\ ty = TokenTemplateControl
    THEN TokenTemplateInterp
    ELSE ty

\* recoverIter without its case for end-of-file
recoverIter_noEOF(f, tokTy) ==
    LET ty == recoverType(f.end, tokTy) IN
    CASE ty = f.start -> [f EXCEPT !.nest = @ + 1]
      [] ty = f.end -> IF f.nest < 1
                       THEN [f EXCEPT !.pc = "return"]
                       ELSE [f EXCEPT !.nest = @ - 1]
      [] OTHER -> f

\* one iteration of recover's loop on the activation f reading a token of type
\* tokTy: the activation afterwards, with pc "return" when the loop returns
recoverIter(f, tokTy) ==
    LET ty == recoverType(f.end, tokTy) IN
    CASE ty = f.start -> [f EXCEPT !.nest = @ + 1]
      [] ty = f.end -> IF f.nest < 1
                       THEN [f EXCEPT !.pc = "return"]
                       ELSE [f EXCEPT !.nest = @ - 1]
      [] ty = TokenEOF -> [f EXCEPT !.pc = "return"]
      [] OTHER -> f

recover_loop ==
    /\ In("recover", "loop")
    /\ Read
    /\ LET f == recoverIter(Top, Peek.Type) IN
       stack' = IF f.pc = "return" THEN Pop ELSE SetTop(f)
    /\ Step
    /\ UNCHANGED <<tokens, recovery, retval, panicked, entry, dec>>

(***************************************************************************)
(* recoverOver(start)                                                      *)
(***************************************************************************)
recoverOver_find ==
    /\ In("recoverOver", "find")
    /\ Read
    /\ stack' = IF Peek.Type \in {Top.start, TokenEOF}
                THEN SetTop(Frame_recover(Top.end))   \* p.recover(end), then return
                ELSE stack
    /\ Step
    /\ UNCHANGED <<tokens, recovery, retval, panicked, entry, dec>>

(***************************************************************************)
(* recoverAfterBodyItem()                                                  *)
(*                                                                         *)
(* The field from of its activation is not in the code: it holds the place *)
(* of the first token the scan reads.                                      *)
(***************************************************************************)
\* recoverAfterBodyItem_begin without p.recovery = true
recoverAfterBodyItem_begin_noFlag ==
    /\ In("recoverAfterBodyItem", "begin")
    /\ recovery' = recovery
    /\ stack' = SetTop([Top EXCEPT !.pc = "loop", !.open = <<>>, !.from = NextIndex])
    /\ Step
    /\ UNCHANGED <<tokens, NextIndex, retval, panicked, entry, reads, dec>>

recoverAfterBodyItem_begin ==
    /\ In("recoverAfterBodyItem", "begin")
    /\ recovery' = TRUE
    /\ stack' = SetTop([Top EXCEPT !.pc = "loop", !.open = <<>>, !.from = NextIndex])
    /\ Step
    /\ UNCHANGED <<tokens, NextIndex, retval, panicked, entry, reads, dec>>

RECURSIVE popTo(_, _)
\* open with its entries removed from the top down to, not including, the nearest
\* entry of a type in `openers`
popTo(open, openers) ==
    IF Len(open) > 0 /\ open[Len(open)] \notin openers
    THEN popTo(SubSeq(open, 1, Len(open) - 1), openers)
    ELSE open

\* open[:len(open)-1] when open is not empty
dropLast(open) == IF Len(open) > 0 THEN SubSeq(open, 1, Len(open) - 1) ELSE open

\* the stack of open bracketers after a closing token of type ty
closeBracket(open, ty) ==
    IF ty = TokenTemplateSeqEnd
    THEN dropLast(popTo(open, {TokenTemplateInterp, TokenTemplateControl}))
    ELSE dropLast(popTo(open, {oppositeBracket(ty)}))

\* recoverAfterBodyItemIter that ends the scan at every newline
recoverAfterBodyItemIter_anyNewline(f, ty) ==
    CASE ty = TokenNewline -> [f EXCEPT !.pc = "return"]
      [] ty = TokenEOF -> [f EXCEPT !.pc = "return"]
      [] ty \in Openers -> [f EXCEPT !.open = Append(@, ty)]
      [] ty \in Closers \cup {TokenTemplateSeqEnd} ->
            [f EXCEPT !.open = closeBracket(@, ty)]
      [] OTHER -> f

\* one iteration of recoverAfterBodyItem's loop on the activation f
recoverAfterBodyItemIter(f, ty) ==
    CASE ty = TokenNewline -> IF Len(f.open) = 0 THEN [f EXCEPT !.pc = "return"] ELSE f
      [] ty = TokenEOF -> [f EXCEPT !.pc = "return"]
      [] ty \in Openers -> [f EXCEPT !.open = Append(@, ty)]
      [] ty \in Closers \cup {TokenTemplateSeqEnd} ->
            [f EXCEPT !.open = closeBracket(@, ty)]
      [] OTHER -> f

recoverAfterBodyItem_loop ==
    /\ In("recoverAfterBodyItem", "loop")
    /\ Read
    /\ LET f == recoverAfterBodyItemIter(Top, Peek.Type) IN
       stack' = IF f.pc = "return" THEN Pop ELSE SetTop(f)
    /\ Step
    /\ UNCHANGED <<tokens, recovery, retval, panicked, entry, dec>>

SeqsUpTo(S, n) == UNION {[1..k -> S] : k \in 0..n}

(***************************************************************************)
(* decodeStringLit.  A literal is a sequence of grapheme clusters, as      *)
(* textseg.ScanGraphemeClusters yields them; each is a string here.        *)
(***************************************************************************)
BSlash == "\\"

DQuote == "\""

LF == "\n"

CR == "\r"

TAB == "\t"

\* the two-byte line ending, one grapheme cluster
CRLF == "\r\n"

\* a grapheme cluster of two bytes that is not a line ending (U+00E9)
TwoByte == "e-acute"

\* len(ch)
ByteLen(ch) == IF ch \in {CRLF, TwoByte} THEN 2 ELSE 1

\* (len(ch) == 1 && ch[0] == '\n') || (len(ch) == 2 && ch[1] == '\n')
IsLineEnd(ch) == ch \in {LF, CRLF}

\* the activation of decodeStringLit on a token of the given type
decodeBegin(tokType, bytes, start) ==
    [active |-> TRUE, quoted |-> (tokType = TokenQuotedLit), bytes |-> bytes,
     start |-> start, i |-> 1,
     ret |-> <<>>, esc |-> <<>>, diags |-> <<>>, pos |-> start, newPos |-> start,
     panicked |-> (tokType \notin {TokenQuotedLit, TokenStringLit})]

\* the character a valid backslash escape stands for
unescape(ch) ==
    CASE ch = "n" -> LF
      [] ch = "r" -> CR
      [] ch = "t" -> TAB
      [] ch = DQuote -> DQuote
      [] ch = BSlash -> BSlash

escapeDetail(ch) ==
    IF ch \in {"$", "!"}
    THEN "The characters do not form a recognized escape sequence. To escape a template sequence, double the marker."
    ELSE "The characters do not form a recognized escape sequence."

\* the subject of the "Invalid escape sequence" diagnostic for the character ch at pos
escapeSubject(pos, ch) ==
    Range(Pos(pos.Line, pos.Column - 1, pos.Byte - 1),
          Pos(pos.Line, pos.Column + 1, pos.Byte + ByteLen(ch)))

\* newPos after the character ch
advance(newPos, ch) ==
    IF IsLineEnd(ch)
    THEN Pos(newPos.Line + 1, 0, newPos.Byte + ByteLen(ch))
    ELSE Pos(newPos.Line, newPos.Column + 1, newPos.Byte + ByteLen(ch))

\* decodeBackslash that keeps the backslash of an unrecognized escape in the output
decodeBackslash_keep(d, ch) ==
    IF ch \in {"n", "r", "t", DQuote, BSlash}
    THEN [d EXCEPT !.ret = Append(@, unescape(ch)), !.esc = <<>>]
    ELSE [d EXCEPT
            !.diags = Append(@, Diag("Invalid escape sequence", escapeDetail(ch),
                                     escapeSubject(d.pos, ch), NoRange)),
            !.ret = Append(Append(@, BSlash), ch),
            !.esc = <<>>]

\* a pending backslash, resolved by ch
decodeBackslash(d, ch) ==
    IF ch \in {"n", "r", "t", DQuote, BSlash}
    THEN [d EXCEPT !.ret = Append(@, unescape(ch)), !.esc = <<>>]
    ELSE [d EXCEPT
            !.diags = Append(@, Diag("Invalid escape sequence", escapeDetail(ch),
                                     escapeSubject(d.pos, ch), NoRange)),
            !.ret = Append(@, ch),
            !.esc = <<>>]

\* decodeMarker that outputs both markers of a doubled marker before a brace
decodeMarker_both(d, ch) ==
    CASE Len(d.esc) = 1 ->
            IF ch = d.esc[1]
            THEN [d EXCEPT !.esc = Append(@, ch)]
            ELSE [d EXCEPT !.ret = Append(@ \o d.esc, ch), !.esc = <<>>]
      [] Len(d.esc) = 2 ->
            [d EXCEPT !.ret = Append(@ \o d.esc, ch), !.esc = <<>>]
      [] OTHER -> [d EXCEPT !.panicked = TRUE]

\* a pending marker ($ or !), one or two characters long, followed by ch
decodeMarker(d, ch) ==
    CASE Len(d.esc) = 1 ->
            IF ch = d.esc[1]
            THEN [d EXCEPT !.esc = Append(@, ch)]
            ELSE [d EXCEPT !.ret = Append(@ \o d.esc, ch), !.esc = <<>>]
      [] Len(d.esc) = 2 ->
            IF ch = "{"
            THEN [d EXCEPT !.ret = Append(Append(@, d.esc[1]), ch), !.esc = <<>>]
            ELSE [d EXCEPT !.ret = Append(@ \o d.esc, ch), !.esc = <<>>]
      [] OTHER -> [d EXCEPT !.panicked = TRUE]

\* decodePlain that holds a backslash back in unquoted mode too
decodePlain_anyMode(d, ch) ==
    CASE ch = BSlash -> [d EXCEPT !.esc = Append(@, BSlash)]
      [] ch = "$" -> [d EXCEPT !.esc = Append(@, "$")]
      [] ch = "!" -> [d EXCEPT !.esc = Append(@, "!")]
      [] OTHER -> [d EXCEPT !.ret = Append(@, ch)]

\* no escape is pending
decodePlain(d, ch) ==
    CASE ch = BSlash /\ d.quoted -> [d EXCEPT !.esc = Append(@, BSlash)]
      [] ch = "$" -> [d EXCEPT !.esc = Append(@, "$")]
      [] ch = "!" -> [d EXCEPT !.esc = Append(@, "!")]
      [] OTHER -> [d EXCEPT !.ret = Append(@, ch)]

\* one iteration of the Character loop: the activation after the next character
decodeChar(d) ==
    LET ch == d.bytes[d.i]
        d1 == [d EXCEPT !.i = @ + 1, !.pos = d.newPos, !.newPos = advance(d.newPos, ch)]
    IN  IF Len(d.esc) > 0
        THEN CASE d.esc[1] = BSlash -> decodeBackslash(d1, ch)
               [] d.esc[1] \in {"$", "!"} -> decodeMarker(d1, ch)
               [] OTHER -> d1
        ELSE decodePlain(d1, ch)

RECURSIVE decodeRun(_)
\* the Character loop run to the end of the literal (or to a panic)
decodeRun(d) == IF d.i > Len(d.bytes) \/ d.panicked THEN d ELSE decodeRun(decodeChar(d))

\* decodeStringLit(tok): the activation when it returns (string(ret) and diags)
decodeStringLit(tok) == decodeRun(decodeBegin(tok.Type, tok.Bytes, tok.Range.Start))

\* the graphemes literals are made of
Graphemes == {"a", "n", "r", "t", "q", "{", "$", "!", BSlash, DQuote, LF, CRLF, TwoByte}

Literals == SeqsUpTo(Graphemes, MaxLit)

LiteralStarts == {Pos(3, 5, 20)}

IdleDec == [active |-> FALSE]

InitDecode ==
    /\ \E ty \in {TokenQuotedLit, TokenStringLit}, b \in Literals, p \in LiteralStarts :
          dec = decodeBegin(ty, b, p)
    /\ tokens = MkTokens(<<>>)
    /\ entry = [fn |-> "decodeStringLit", arg |-> TokenNil]
    /\ stack = <<>>
    /\ NextIndex = 1
    /\ recovery = FALSE
    /\ retval = NoValue
    /\ panicked = FALSE
    /\ reads = 0
    /\ steps = 0

\* one character of the literal is scanned
decode_char ==
    /\ dec.active /\ ~dec.panicked /\ dec.i <= Len(dec.bytes)
    /\ dec' = decodeChar(dec)
    /\ Step
    /\ UNCHANGED <<tokens, NextIndex, recovery, stack, retval, panicked, entry, reads>>

\* decode_return that flushes the pending escape into the output
decode_return_flush ==
    /\ dec.active /\ ~dec.panicked /\ dec.i > Len(dec.bytes)
    /\ retval' = [kind |-> "string", s |-> dec.ret \o dec.esc, diags |-> dec.diags]
    /\ dec' = [dec EXCEPT !.active = FALSE]
    /\ Step
    /\ UNCHANGED <<tokens, NextIndex, recovery, stack, panicked, entry, reads>>

\* sc.Scan() finds no more characters: return string(ret), diags
decode_return ==
    /\ dec.active /\ ~dec.panicked /\ dec.i > Len(dec.bytes)
    /\ retval' = [kind |-> "string", s |-> dec.ret, diags |-> dec.diags]
    /\ dec' = [dec EXCEPT !.active = FALSE]
    /\ Step
    /\ UNCHANGED <<tokens, NextIndex, recovery, stack, panicked, entry, reads>>

NextDecode == decode_char \/ decode_return

SpecDecode == InitDecode /\ [][NextDecode]_vars

(***************************************************************************)
(* The syntax tree.                                                        *)
(***************************************************************************)
\* Attributes{}: no attribute
NoAttributes == [n \in {} |-> NoValue]

MkBody(attrs, blocks, srcRange, endRange) ==
    [Present |-> TRUE, Attributes |-> attrs, Blocks |-> blocks,
     SrcRange |-> srcRange, EndRange |-> endRange]

\* a nil *Body
NilBody ==
    [Present |-> FALSE, Attributes |-> NoAttributes, Blocks |-> <<>>,
     SrcRange |-> ZeroRange, EndRange |-> ZeroRange]

MkBlock(type, labels, body, typeRange, labelRanges, oBraceRange, cBraceRange) ==
    [node |-> "Block", Type |-> type, Labels |-> labels, Body |-> body,
     TypeRange |-> typeRange, LabelRanges |-> labelRanges,
     OpenBraceRange |-> oBraceRange, CloseBraceRange |-> cBraceRange]

\* a nil Node
NilNode == [node |-> "nil"]

(***************************************************************************)
(* Activation records of the parsing functions.                            *)
(***************************************************************************)
\* ParseBody(end), called when the last token read has the range prevRange
Frame_ParseBody(end, prevRange) ==
    [fn |-> "ParseBody", pc |-> "loop", end |-> end, attrs |-> NoAttributes,
     blocks |-> <<>>, diags |-> <<>>, startRange |-> prevRange, endRange |-> ZeroRange,
     mark |-> -1]

Frame_ParseBodyItem ==
    [fn |-> "ParseBodyItem", pc |-> "begin", ident |-> ZeroToken]

Frame_finishParsingBodyBlock(ident) ==
    [fn |-> "finishParsingBodyBlock", pc |-> "loop", ident |-> ident, diags |-> <<>>,
     labels |-> <<>>, labelRanges |-> <<>>, oBrace |-> ZeroToken, mark |-> -1]

Frame_parseQuotedStringLiteral ==
    [fn |-> "parseQuotedStringLiteral", pc |-> "begin", oQuote |-> ZeroToken,
     diags |-> <<>>, ret |-> <<>>, cQuote |-> ZeroToken, mark |-> -1]

\* The field mark of the activations of ParseBody, finishParsingBodyBlock and
\* parseQuotedStringLiteral is not in the code: it holds the number of reads made
\* when the current iteration of the activation's loop began (-1 before the first).
\* Iter is the innermost activation as an iteration of its loop begins.
Iter == [Top EXCEPT !.mark = reads]

(***************************************************************************)
(* ParseBody(end)                                                          *)
(***************************************************************************)
\* return &Body{...}, diags of the activation f
bodyResult(f) ==
    [kind |-> "body",
     body |-> MkBody(f.attrs, f.blocks, RangeBetween(f.startRange, f.endRange),
                     Range(f.endRange.End, f.endRange.End)),
     diags |-> f.diags]

\* the next token is `end`: consume it and return the body
ParseBody_end ==
    /\ In("ParseBody", "loop")
    /\ Peek.Type = Top.end
    /\ Read
    /\ retval' = bodyResult([Iter EXCEPT !.endRange = NextRange])
    /\ stack' = Pop
    /\ Step
    /\ UNCHANGED <<tokens, recovery, panicked, entry, dec>>

\* ParseBody_newline without its p.Read()
ParseBody_newline_noRead ==
    /\ In("ParseBody", "loop")
    /\ Peek.Type # Top.end
    /\ Peek.Type = TokenNewline
    /\ stack' = SetTop(Iter)
    /\ Step
    /\ UNCHANGED <<tokens, NextIndex, recovery, retval, panicked, entry, reads, dec>>

ParseBody_newline ==
    /\ In("ParseBody", "loop")
    /\ Peek.Type # Top.end
    /\ Peek.Type = TokenNewline
    /\ Read
    /\ stack' = SetTop(Iter)
    /\ Step
    /\ UNCHANGED <<tokens, recovery, retval, panicked, entry, dec>>

\* the next token is an identifier: p.ParseBodyItem()
ParseBody_ident ==
    /\ In("ParseBody", "loop")
    /\ Peek.Type # Top.end
    /\ Peek.Type = TokenIdent
    /\ stack' = Push([Iter EXCEPT !.pc = "item"], Frame_ParseBodyItem)
    /\ Step
    /\ UNCHANGED <<tokens, NextIndex, recovery, retval, panicked, entry, reads, dec>>

redefinedDiag(titem, existing) ==
    Diag("Attribute redefined",
         "The attribute was already defined. Each attribute may be defined only once.",
         titem.NameRange, NoRange)

\* the activation f after ParseBodyItem returned item: the type switch on it
addItem(f, item) ==
    CASE item.node = "Block" -> [f EXCEPT !.blocks = Append(@, item)]
      [] item.node = "Attribute" ->
            IF item.Name \in DOMAIN f.attrs
            THEN [f EXCEPT !.diags = Append(@, redefinedDiag(item, f.attrs[item.Name]))]
            ELSE [f EXCEPT !.attrs = (item.Name :> item) @@ @]
      [] OTHER -> f

\* ParseBodyItem has returned
ParseBody_item ==
    /\ In("ParseBody", "item")
    /\ retval.kind = "item"
    /\ stack' = SetTop(addItem([Top EXCEPT !.pc = "loop", !.diags = @ \o retval.diags],
                               retval.item))
    /\ retval' = NoValue
    /\ Step
    /\ UNCHANGED <<tokens, NextIndex, recovery, panicked, entry, reads, dec>>

\* badTokenDiags with the test of p.recovery inverted
badTokenDiags_inverted(bad) ==
    IF ~recovery
    THEN <<>>
    ELSE IF bad.Type = TokenOQuote
         THEN <<Diag("Invalid attribute name", "Attribute names must not be quoted.",
                     bad.Range, NoRange)>>
         ELSE <<Diag("Attribute or block definition required",
                     "An attribute or block definition is required here.",
                     bad.Range, NoRange)>>

\* the diagnostic for a token that starts neither an attribute nor a block
badTokenDiags(bad) ==
    IF recovery
    THEN <<>>
    ELSE IF bad.Type = TokenOQuote
         THEN <<Diag("Invalid attribute name", "Attribute names must not be quoted.",
                     bad.Range, NoRange)>>
         ELSE <<Diag("Attribute or block definition required",
                     "An attribute or block definition is required here.",
                     bad.Range, NoRange)>>

\* any other token: consume it, report it, p.recover(end)
ParseBody_bad ==
    /\ In("ParseBody", "loop")
    /\ Peek.Type \notin {Top.end, TokenNewline, TokenIdent}
    /\ Read
    /\ stack' = Push([Iter EXCEPT !.pc = "recovered",
                                 !.diags = @ \o badTokenDiags(Peek),
                                 !.endRange = PrevRangeAfterRead],
                     Frame_recover(Top.end))
    /\ Step
    /\ UNCHANGED <<tokens, recovery, retval, panicked, entry, dec>>

\* recover(end) has returned: break Token, return the body
ParseBody_recovered ==
    /\ In("ParseBody", "recovered")
    /\ retval' = bodyResult(Top)
    /\ stack' = Pop
    /\ Step
    /\ UNCHANGED <<tokens, NextIndex, recovery, panicked, entry, reads, dec>>

(***************************************************************************)
(* ParseBodyItem()                                                         *)
(***************************************************************************)
\* the token after the one at the front
PeekAfterRead == tokens[Min(NextIndex + 1, Len(tokens))]

\* what ParseBodyItem does after reading ident:
\* "attribute", "block" or "recover"
itemKind(ident, next) ==
    IF ident.Type # TokenIdent
    THEN "recover"
    ELSE CASE next.Type = TokenEqual -> "attribute"
           [] next.Type \in {TokenOQuote, TokenOBrace} -> "block"
           [] OTHER -> "recover"

itemDiag(ident) ==
    IF ident.Type # TokenIdent
    THEN Diag("Attribute or block definition required",
              "An attribute or block definition is required here.",
              ident.Range, NoRange)
    ELSE Diag("Attribute or block definition required",
              "An attribute or block definition is required here. To define an attribute, use the equals sign to introduce the attribute value.",
              ident.Range, NoRange)

\* ident followed by "=": finishParsingBodyAttribute, which panics
ParseBodyItem_attribute ==
    /\ In("ParseBodyItem", "begin")
    /\ itemKind(Peek, PeekAfterRead) = "attribute"
    /\ Read
    /\ panicked' = TRUE
    /\ stack' = SetTop([Top EXCEPT !.ident = Peek])
    /\ Step
    /\ UNCHANGED <<tokens, recovery, retval, entry, dec>>

\* ident followed by a quote or a brace: return p.finishParsingBodyBlock(ident)
ParseBodyItem_block ==
    /\ In("ParseBodyItem", "begin")
    /\ itemKind(Peek, PeekAfterRead) = "block"
    /\ Read
    /\ stack' = SetTop(Frame_finishParsingBodyBlock(Peek))
    /\ Step
    /\ UNCHANGED <<tokens, recovery, retval, panicked, entry, dec>>

\* anything else: p.recoverAfterBodyItem()
ParseBodyItem_other ==
    /\ In("ParseBodyItem", "begin")
    /\ itemKind(Peek, PeekAfterRead) = "recover"
    /\ Read
    /\ stack' = Push([Top EXCEPT !.pc = "recovered", !.ident = Peek],
                     Frame_recoverAfterBodyItem)
    /\ Step
    /\ UNCHANGED <<tokens, recovery, retval, panicked, entry, dec>>

\* recoverAfterBodyItem has returned: return nil and the diagnostic
ParseBodyItem_recovered ==
    /\ In("ParseBodyItem", "recovered")
    /\ retval' = [kind |-> "item", item |-> NilNode, diags |-> <<itemDiag(Top.ident)>>]
    /\ stack' = Pop
    /\ Step
    /\ UNCHANGED <<tokens, NextIndex, recovery, panicked, entry, reads, dec>>

(***************************************************************************)
(* finishParsingBodyBlock(ident)                                           *)
(***************************************************************************)
\* partialBlock that leaves out the range of the label that failed
partialBlock_noRange(f) ==
    MkBlock(f.ident.Bytes, f.labels, NilBody, f.ident.Range, dropLast(f.labelRanges),
            f.ident.Range, f.ident.Range)

\* the Block returned when the header cannot be parsed
partialBlock(f) ==
    MkBlock(f.ident.Bytes, f.labels, NilBody, f.ident.Range, f.labelRanges,
            f.ident.Range, f.ident.Range)

\* an opening brace: consume it and p.ParseBody(TokenCBrace)
Block_obrace ==
    /\ In("finishParsingBodyBlock", "loop")
    /\ Peek.Type = TokenOBrace
    /\ Read
    /\ stack' = Push([Iter EXCEPT !.pc = "body", !.oBrace = Peek],
                     Frame_ParseBody(TokenCBrace, PrevRangeAfterRead))
    /\ Step
    /\ UNCHANGED <<tokens, recovery, retval, panicked, entry, dec>>

\* an opening quote: p.parseQuotedStringLiteral()
Block_oquote ==
    /\ In("finishParsingBodyBlock", "loop")
    /\ Peek.Type = TokenOQuote
    /\ stack' = Push([Iter EXCEPT !.pc = "label"], Frame_parseQuotedStringLiteral)
    /\ Step
    /\ UNCHANGED <<tokens, NextIndex, recovery, retval, panicked, entry, reads, dec>>

\* parseQuotedStringLiteral has returned a label
Block_label ==
    /\ In("finishParsingBodyBlock", "label")
    /\ retval.kind = "label"
    /\ LET f == [Top EXCEPT !.diags = @ \o retval.diags,
                            !.labels = Append(@, retval.label),
                            !.labelRanges = Append(@, retval.range)]
       IN  stack' = IF HasErrors(retval.diags)
                    THEN Push([f EXCEPT !.pc = "recovered"], Frame_recoverAfterBodyItem)
                    ELSE SetTop([f EXCEPT !.pc = "loop"])
    /\ retval' = NoValue
    /\ Step
    /\ UNCHANGED <<tokens, NextIndex, recovery, panicked, entry, reads, dec>>

\* the diagnostic for a token tok that is neither a label nor an opening brace
headerDiags(f, tok) ==
    CASE tok.Type = TokenEqual ->
            <<Diag("Invalid block definition",
                   "The equals sign indicates an attribute definition, and must not be used when defining a block.",
                   tok.Range, RangeBetween(f.ident.Range, tok.Range))>>
      [] tok.Type = TokenNewline ->
            <<Diag("Invalid block definition",
                   "A block definition must have block content delimited by braces, starting on the same line as the block header.",
                   tok.Range, RangeBetween(f.ident.Range, tok.Range))>>
      [] OTHER ->
            IF recovery
            THEN <<>>
            ELSE <<Diag("Invalid block definition",
                        "Either a quoted string block label or an opening brace is expected here.",
                        tok.Range, RangeBetween(f.ident.Range, tok.Range))>>

\* any other token in the header: report it, p.recoverAfterBodyItem()
Block_bad ==
    /\ In("finishParsingBodyBlock", "loop")
    /\ Peek.Type \notin {TokenOBrace, TokenOQuote}
    /\ stack' = Push([Iter EXCEPT !.pc = "recovered", !.diags = @ \o headerDiags(Top, Peek)],
                     Frame_recoverAfterBodyItem)
    /\ Step
    /\ UNCHANGED <<tokens, NextIndex, recovery, retval, panicked, entry, reads, dec>>

\* recoverAfterBodyItem has returned: return the partial Block
Block_recovered ==
    /\ In("finishParsingBodyBlock", "recovered")
    /\ retval' = [kind |-> "item", item |-> partialBlock(Top), diags |-> Top.diags]
    /\ stack' = Pop
    /\ Step
    /\ UNCHANGED <<tokens, NextIndex, recovery, panicked, entry, reads, dec>>

\* the Block returned once its body is parsed
fullBlock(f, body, cBraceRange) ==
    MkBlock(f.ident.Bytes, f.labels, body, f.ident.Range, f.labelRanges,
            f.oBrace.Range, cBraceRange)

\* ParseBody(TokenCBrace) has returned: return the Block
Block_body ==
    /\ In("finishParsingBodyBlock", "body")
    /\ retval.kind = "body"
    /\ retval' = [kind |-> "item", item |-> fullBlock(Top, retval.body, PrevRange),
                  diags |-> Top.diags \o retval.diags]
    /\ stack' = Pop
    /\ Step
    /\ UNCHANGED <<tokens, NextIndex, recovery, panicked, entry, reads, dec>>

(***************************************************************************)
(* parseQuotedStringLiteral()                                              *)
(***************************************************************************)
labelResult(f) ==
    [kind |-> "label", label |-> f.ret,
     range |-> RangeBetween(f.oQuote.Range, f.cQuote.Range), diags |-> f.diags]

\* oQuote := p.Read(); a token that is no opening quote is an error
Quoted_begin ==
    /\ In("parseQuotedStringLiteral", "begin")
    /\ Read
    /\ IF Peek.Type # TokenOQuote
       THEN /\ retval' = [kind |-> "label", label |-> <<>>, range |-> Peek.Range,
                          diags |-> <<Diag("Invalid string literal",
                                           "A quoted string is required here.",
                                           Peek.Range, NoRange)>>]
            /\ stack' = Pop
       ELSE /\ retval' = retval
            /\ stack' = SetTop([Top EXCEPT !.pc = "loop", !.oQuote = Peek])
    /\ Step
    /\ UNCHANGED <<tokens, recovery, panicked, entry, dec>>

\* the closing quote: return the string
Quoted_close ==
    /\ In("parseQuotedStringLiteral", "loop")
    /\ Peek.Type = TokenCQuote
    /\ Read
    /\ retval' = labelResult([Iter EXCEPT !.cQuote = Peek])
    /\ stack' = Pop
    /\ Step
    /\ UNCHANGED <<tokens, recovery, panicked, entry, dec>>

\* literal text: p.decodeStringLit(tok)
Quoted_lit ==
    /\ In("parseQuotedStringLiteral", "loop")
    /\ Peek.Type = TokenQuotedLit
    /\ Read
    /\ LET d == decodeStringLit(Peek) IN
       stack' = SetTop([Iter EXCEPT !.diags = @ \o d.diags, !.ret = @ \o d.ret])
    /\ Step
    /\ UNCHANGED <<tokens, recovery, retval, panicked, entry, dec>>

templateDiag(f, tok) ==
    Diag("Invalid string literal",
         IF tok.Type = TokenTemplateControl
         THEN "Template sequences are not allowed in this string. To include a literal \"!\", double it (as \"!!\") to escape it."
         ELSE "Template sequences are not allowed in this string. To include a literal \"$\", double it (as \"$$\") to escape it.",
         tok.Range, RangeBetween(f.oQuote.Range, tok.Range))

\* a template sequence: report it, p.recover(TokenTemplateSeqEnd), go on
Quoted_template ==
    /\ In("parseQuotedStringLiteral", "loop")
    /\ Peek.Type \in {TokenTemplateControl, TokenTemplateInterp}
    /\ Read
    /\ stack' = Push([Iter EXCEPT !.diags = Append(@, templateDiag(Top, Peek))],
                     Frame_recover(TokenTemplateSeqEnd))
    /\ Step
    /\ UNCHANGED <<tokens, recovery, retval, panicked, entry, dec>>

\* end-of-file before the closing quote
Quoted_eof ==
    /\ In("parseQuotedStringLiteral", "loop")
    /\ Peek.Type = TokenEOF
    /\ Read
    /\ retval' = labelResult(
            [Iter EXCEPT !.diags = Append(@,
                Diag("Unterminated string literal",
                     "Unable to find the closing quote mark before the end of the file.",
                     Peek.Range, RangeBetween(Top.oQuote.Range, Peek.Range)))])
    /\ stack' = Pop
    /\ Step
    /\ UNCHANGED <<tokens, recovery, panicked, entry, dec>>

\* Quoted_other that recovers to the closing quote instead
Quoted_other_toCQuote ==
    /\ In("parseQuotedStringLiteral", "loop")
    /\ Peek.Type \notin {TokenCQuote, TokenQuotedLit, TokenTemplateControl,
                         TokenTemplateInterp, TokenEOF}
    /\ Read
    /\ stack' = Push([Iter EXCEPT !.pc = "recovered",
                        !.diags = Append(@,
                            Diag("Invalid string literal",
                                 "This item is not valid in a string literal.",
                                 Peek.Range, RangeBetween(Top.oQuote.Range, Peek.Range)))],
                     Frame_recover(TokenCQuote))
    /\ Step
    /\ UNCHANGED <<tokens, recovery, retval, panicked, entry, dec>>

\* any other token: report it, p.recover(TokenOQuote)
Quoted_other ==
    /\ In("parseQuotedStringLiteral", "loop")
    /\ Peek.Type \notin {TokenCQuote, TokenQuotedLit, TokenTemplateControl,
                         TokenTemplateInterp, TokenEOF}
    /\ Read
    /\ stack' = Push([Iter EXCEPT !.pc = "recovered",
                        !.diags = Append(@,
                            Diag("Invalid string literal",
                                 "This item is not valid in a string literal.",
                                 Peek.Range, RangeBetween(Top.oQuote.Range, Peek.Range)))],
                     Frame_recover(TokenOQuote))
    /\ Step
    /\ UNCHANGED <<tokens, recovery, retval, panicked, entry, dec>>

\* recover(TokenOQuote) has returned: break Token, return the string
Quoted_recovered ==
    /\ In("parseQuotedStringLiteral", "recovered")
    /\ retval' = labelResult(Top)
    /\ stack' = Pop
    /\ Step
    /\ UNCHANGED <<tokens, NextIndex, recovery, panicked, entry, reads, dec>>

(***************************************************************************)
(* Token sequences the runs start from.                                    *)
(***************************************************************************)
\* every token type but end-of-file; a quoted literal holds x or \q
Alphabet ==
    {Tok(ty, <<>>) : ty \in TokenTypes \ {TokenEOF, TokenIdent, TokenQuotedLit}}
    \cup {Tok(TokenIdent, <<"a">>), Tok(TokenQuotedLit, <<"x">>),
          Tok(TokenQuotedLit, <<BSlash, "q">>)}

\* the tokens nested bracket sequences are made of
NestAlphabet ==
    {Tok(ty, <<>>) : ty \in {TokenOBrace, TokenCBrace, TokenTemplateInterp,
                             TokenTemplateSeqEnd, TokenNewline}}

RecoverInputs == SeqsUpTo(Alphabet, MaxRecLen) \cup SeqsUpTo(NestAlphabet, MaxNest)

\* the alphabet without the bracket, heredoc and string-literal tokens, for which the
\* parsing functions have no case of their own (the parentheses stand for them)
ParseAlphabet ==
    {a \in Alphabet : a.Type \notin {TokenOBrack, TokenCBrack, TokenOHeredoc,
                                     TokenCHeredoc, TokenStringLit}}

ShortInputs == SeqsUpTo(ParseAlphabet, MaxLen)

(***************************************************************************)
(* The recovery functions run on their own.                                *)
(***************************************************************************)
\* the run is over: the function it started with has returned
Done == stack = <<>> /\ ~panicked

RecoverEntries ==
    {[fn |-> "recover", arg |-> ty] : ty \in TokenTypes}
    \cup {[fn |-> "recoverOver", arg |-> ty] : ty \in Bracketers}
    \cup {[fn |-> "recoverAfterBodyItem", arg |-> TokenNil]}

EntryFrame(e) ==
    CASE e.fn = "recover" -> Frame_recover(e.arg)
      [] e.fn = "recoverOver" -> Frame_recoverOver(e.arg)
      [] e.fn = "recoverAfterBodyItem" -> Frame_recoverAfterBodyItem

InitRecover ==
    /\ tokens \in {MkTokens(s) : s \in RecoverInputs}
    /\ entry \in RecoverEntries
    /\ stack = <<EntryFrame(entry)>>
    /\ NextIndex = 1
    /\ recovery = FALSE
    /\ retval = NoValue
    /\ panicked = FALSE
    /\ reads = 0
    /\ steps = 0
    /\ dec = IdleDec

\* the entry of a run that has invoked its function a second time: where the first
\* invocation left the cursor and the recovery flag
SecondEntry(e) == [fn |-> e.fn, arg |-> e.arg, cursor |-> NextIndex, flag |-> recovery]

Again == "cursor" \in DOMAIN entry

\* recover(end) or recoverAfterBodyItem has returned and is invoked again, right
\* away; the reads and the steps are counted for each invocation
invokeAgain ==
    /\ Done
    /\ entry.fn \in {"recover", "recoverAfterBodyItem"}
    /\ ~Again
    /\ entry' = SecondEntry(entry)
    /\ stack' = <<EntryFrame(entry)>>
    /\ reads' = 0
    /\ steps' = 0
    /\ UNCHANGED <<tokens, NextIndex, recovery, retval, panicked, dec>>

NextRecover ==
    \/ recover_begin
    \/ recover_loop
    \/ recoverOver_find
    \/ recoverAfterBodyItem_begin
    \/ recoverAfterBodyItem_loop
    \/ invokeAgain

SpecRecover == InitRecover /\ [][NextRecover]_vars

(***************************************************************************)
(* The parser run on a whole token stream: ParseBody(TokenEOF).            *)
(***************************************************************************)
IdentA == Tok(TokenIdent, <<"a">>)

LitX == Tok(TokenQuotedLit, <<"x">>)

T(ty) == Tok(ty, <<>>)

Label == <<T(TokenOQuote), LitX, T(TokenCQuote)>>

\* a label holding a template sequence opened by a token of type ty
TemplateLabel(ty) ==
    <<T(TokenOQuote), T(ty), IdentA, T(TokenTemplateSeqEnd), T(TokenCQuote)>>

\* the pieces structured token sequences are made of
Pieces ==
    { \* a block header with its opening brace, without and with a label
      <<IdentA, T(TokenOBrace)>>,
      <<IdentA>> \o Label \o <<T(TokenOBrace)>>,
      <<T(TokenCBrace)>>,
      <<T(TokenNewline)>>,
      \* an empty block, on a line of its own and not
      <<IdentA, T(TokenOBrace), T(TokenCBrace), T(TokenNewline)>>,
      <<IdentA, T(TokenOBrace), T(TokenCBrace)>>,
      \* a block header whose label holds a template sequence, without and with braces
      <<IdentA>> \o TemplateLabel(TokenTemplateInterp),
      <<IdentA>> \o TemplateLabel(TokenTemplateControl)
          \o <<T(TokenOBrace), T(TokenCBrace)>>,
      \* an attribute definition with a quoted string as its value
      <<IdentA, T(TokenEqual)>> \o Label \o <<T(TokenNewline)>>,
      \* a pair of braces where an item should start
      <<T(TokenOBrace), T(TokenCBrace)>>,
      \* a block header whose label holds a token that is no part of a string, and
      \* then a closing and an opening quote
      <<IdentA, T(TokenOQuote), T(TokenOParen), T(TokenCQuote), T(TokenOQuote)>> }

RECURSIVE Flatten(_)
Flatten(ps) == IF ps = <<>> THEN <<>> ELSE Head(ps) \o Flatten(Tail(ps))

PieceInputs == {Flatten(ps) : ps \in SeqsUpTo(Pieces, MaxPieces)}

Inputs == ShortInputs \cup PieceInputs

Init ==
    /\ tokens \in {MkTokens(s) : s \in Inputs}
    /\ NextIndex = 1
    /\ entry = [fn |-> "ParseBody", arg |-> TokenEOF]
    /\ stack = <<Frame_ParseBody(TokenEOF, PrevRange)>>
    /\ recovery = FALSE
    /\ retval = NoValue
    /\ panicked = FALSE
    /\ reads = 0
    /\ steps = 0
    /\ dec = IdleDec

Next ==
    \/ ParseBody_end
    \/ ParseBody_newline
    \/ ParseBody_ident
    \/ ParseBody_item
    \/ ParseBody_bad
    \/ ParseBody_recovered
    \/ ParseBodyItem_attribute
    \/ ParseBodyItem_block
    \/ ParseBodyItem_other
    \/ ParseBodyItem_recovered
    \/ Block_obrace
    \/ Block_oquote
    \/ Block_label
    \/ Block_bad
    \/ Block_recovered
    \/ Block_body
    \/ Quoted_begin
    \/ Quoted_close
    \/ Quoted_lit
    \/ Quoted_template
    \/ Quoted_eof
    \/ Quoted_other
    \/ Quoted_recovered
    \/ recover_begin
    \/ recover_loop
    \/ recoverAfterBodyItem_begin
    \/ recoverAfterBodyItem_loop

Spec == Init /\ [][Next]_vars


(***************************************************************************)
(* Termination.                                                            *)
(***************************************************************************)
\* the functions whose loop does not read a token at every iteration by itself
LoopFns == {"ParseBody", "finishParsingBodyBlock", "parseQuotedStringLiteral"}

\* the innermost activation is at the head of its loop
AtLoopHead == Running /\ Top.fn \in LoopFns /\ Top.pc = "loop"

\* every iteration begun so far of the loop of the innermost activation has
\* consumed a token
IterationsConsume == AtLoopHead => reads > Top.mark

\* the parse is never stuck before its end
NeverStuck == Running => ENABLED Next

\* C1 as stated: ParseBody(end) never loops forever, every iteration of the body
\* loop, of the block-label loop and of the quoted-literal loop consumes a token or
\* exits, and the number of reads is at most the number of tokens of the stream.
C1_ReadsWithinTokens ==
    /\ IterationsConsume
    /\ NeverStuck
    /\ steps <= 3 * reads + 1
    /\ reads <= Len(tokens)

\* C1 (amended): ParseBody(end) never loops forever: every iteration of the body
\* loop, of the block-label loop and of the quoted-literal loop consumes a token or
\* exits, the parse is never stuck, at most two steps that read nothing (a call, a
\* return) come with each read, and the parse ends (by returning, or by the panic of
\* attribute parsing) within 2n - 1 reads, n being the number of tokens of the
\* stream, end-of-file included: end-of-file is read more than once.
C1_ParseTerminates ==
    /\ IterationsConsume
    /\ NeverStuck
    /\ steps <= 3 * reads + 1
    /\ reads <= 2 * Len(tokens) - 1

\* a parse of unclosed nested blocks that has returned after 2n - 1 reads
C1_Witness == Done /\ Len(tokens) >= 5 /\ reads = 2 * Len(tokens) - 1

\* a recovery function run on its own is never stuck before it returns
RecoverNeverStuck == Running => ENABLED NextRecover

\* C2 as stated: recover(end), recoverOver(start) and recoverAfterBodyItem each
\* terminate, and each reads at most as many tokens as remained when it was called
\* (the whole stream, end-of-file included).
C2_ReadsWithinRemaining ==
    /\ RecoverNeverStuck
    /\ steps <= reads + 1
    /\ reads <= Len(tokens)

\* C2 (amended): each of the three terminates; every step but the one that sets the
\* recovery flag reads a token; recover(end) and recoverAfterBodyItem read at most
\* as many tokens as remained when they were called, and recoverOver(start) at most
\* one more: when its first scan ends at end-of-file, recover reads end-of-file again.
C2_RecoveryTerminates ==
    /\ RecoverNeverStuck
    /\ steps <= reads + 1
    /\ reads <= Len(tokens) + (IF entry.fn = "recoverOver" THEN 1 ELSE 0)

\* recoverOver has returned from a stream without its start token, and recover and
\* recoverAfterBodyItem from streams they read to the end
C2_Witness ==
    /\ Done
    /\ Len(tokens) >= 3
    /\ reads = Len(tokens) + (IF entry.fn = "recoverOver" THEN 1 ELSE 0)
    /\ entry.fn = "recoverOver"

(***************************************************************************)
(* Well-formed bodies, read off the token stream without the parser.       *)
(***************************************************************************)
\* the type of token number k of the stream, end-of-file past the end
TypeAt(k) == tokens[Min(k, Len(tokens))].Type

\* a quoted string without template sequences or invalid escapes starts at token k
QuotedStringAt(k) ==
    /\ TypeAt(k) = TokenOQuote
    /\ TypeAt(k + 1) = TokenQuotedLit
    /\ decodeStringLit(tokens[Min(k + 1, Len(tokens))]).diags = <<>>
    /\ TypeAt(k + 2) = TokenCQuote

RECURSIVE SkipLabels(_)
\* the first token at or after k that is not part of a block label
SkipLabels(k) == IF QuotedStringAt(k) THEN SkipLabels(k + 3) ELSE k

NotWellFormed == [ok |-> FALSE, next |-> 0, attrs |-> <<>>, blocks |-> <<>>]

RECURSIVE WellFormedBody(_, _, _, _)
\* The body that starts at token i and is closed by a token of type end, when it is
\* made of attribute definitions (name = "string" newline), blocks (type, labels,
\* braces around a well-formed body) and newlines only: the places (token numbers)
\* of the names of its attributes and of its blocks, in the order of the stream, and
\* the token after it.
WellFormedBody(i, end, attrs, blocks) ==
    CASE TypeAt(i) = end ->
            [ok |-> TRUE, next |-> i + 1, attrs |-> attrs, blocks |-> blocks]
      [] TypeAt(i) # end /\ TypeAt(i) = TokenNewline ->
            WellFormedBody(i + 1, end, attrs, blocks)
      [] TypeAt(i) # end /\ TypeAt(i) = TokenIdent /\ TypeAt(i + 1) = TokenEqual ->
            IF QuotedStringAt(i + 2) /\ TypeAt(i + 5) = TokenNewline
            THEN WellFormedBody(i + 6, end, Append(attrs, i), blocks)
            ELSE NotWellFormed
      [] TypeAt(i) # end /\ TypeAt(i) = TokenIdent /\ TypeAt(i + 1) # TokenEqual ->
            IF TypeAt(SkipLabels(i + 1)) = TokenOBrace
            THEN LET inner == WellFormedBody(SkipLabels(i + 1) + 1, TokenCBrace, <<>>, <<>>)
                 IN  IF inner.ok
                     THEN WellFormedBody(inner.next, end, attrs, Append(blocks, i))
                     ELSE NotWellFormed
            ELSE NotWellFormed
      [] OTHER -> NotWellFormed

\* the stream as a well-formed root body
RootBody == WellFormedBody(1, TokenEOF, <<>>, <<>>)

\* the name of the attribute or the type of the block at token i: string(ident.Bytes)
NameAt(i) == tokens[i].Bytes

\* the attributes at the places ps have pairwise distinct names
Distinct(ps) == \A i, j \in 1..Len(ps) : NameAt(ps[i]) = NameAt(ps[j]) => i = j

\* the root call of ParseBody has returned
RootDone == Done /\ entry.fn = "ParseBody" /\ retval.kind = "body"

\* C3: for a body made of N attributes with pairwise distinct names and M blocks,
\* with no syntax errors, ParseBody returns (it does not panic) with zero
\* diagnostics, N entries in the attribute map and M blocks, in the order of the
\* token stream.
C3_WellFormedBodyParses ==
    (RootBody.ok /\ Distinct(RootBody.attrs)) =>
        /\ ~panicked
        /\ RootDone =>
              /\ retval.diags = <<>>
              /\ Cardinality(DOMAIN retval.body.Attributes) = Len(RootBody.attrs)
              /\ Len(retval.body.Blocks) = Len(RootBody.blocks)
              /\ \A k \in 1..Len(retval.body.Blocks) :
                    retval.body.Blocks[k].TypeRange = tokens[RootBody.blocks[k]].Range

\* the stream is two definitions of the same attribute and nothing else
DuplicateAttribute ==
    /\ RootBody.ok
    /\ RootBody.blocks = <<>>
    /\ Len(RootBody.attrs) = 2
    /\ NameAt(RootBody.attrs[1]) = NameAt(RootBody.attrs[2])

\* C4: when a body defines the same attribute name twice, ParseBody returns (it
\* does not panic) with exactly one diagnostic, "Attribute redefined", whose subject
\* is the range of the second name, and the attribute map has the one key, whose
\* entry carries the range of the first name.
C4_DuplicateAttributeReported ==
    DuplicateAttribute =>
        /\ ~panicked
        /\ RootDone =>
              /\ Len(retval.diags) = 1
              /\ retval.diags[1].Summary = "Attribute redefined"
              /\ retval.diags[1].Subject = tokens[RootBody.attrs[2]].Range
              /\ DOMAIN retval.body.Attributes = {NameAt(RootBody.attrs[1])}
              /\ retval.body.Attributes[NameAt(RootBody.attrs[1])].NameRange
                    = tokens[RootBody.attrs[1]].Range

(***************************************************************************)
(* Well-formed trees.                                                      *)
(***************************************************************************)
RECURSIVE FullyParsed(_)
\* no Block of the body, at any depth, has an absent Body or placeholder braces
FullyParsed(body) ==
    /\ body.Present
    /\ \A k \in 1..Len(body.Blocks) :
          /\ body.Blocks[k].OpenBraceRange # body.Blocks[k].TypeRange
          /\ body.Blocks[k].CloseBraceRange # body.Blocks[k].TypeRange
          /\ FullyParsed(body.Blocks[k].Body)

\* C5: whenever a complete parse of the root body returns an empty diagnostics
\* list, no Block of the tree has an absent Body or placeholder brace ranges, and
\* the recovery flag was never set.
C5_NoDiagnosticsWellFormed ==
    (RootDone /\ retval.diags = <<>>) => (FullyParsed(retval.body) /\ ~recovery)

\* a parse that returned without diagnostics a block nested in a block
C5_Witness ==
    /\ RootDone
    /\ retval.diags = <<>>
    /\ Len(retval.body.Blocks) >= 1
    /\ Len(retval.body.Blocks[1].Body.Blocks) >= 1

(***************************************************************************)
(* Unterminated blocks.                                                    *)
(***************************************************************************)
RECURSIVE OpenBodyAt(_)
\* from token i to end-of-file the stream is attribute definitions, complete blocks
\* and newlines, possibly ending inside further blocks left open in the same way:
\* a well-formed body of which only closing braces are missing
OpenBodyAt(i) ==
    CASE TypeAt(i) = TokenEOF -> TRUE
      [] TypeAt(i) = TokenNewline -> OpenBodyAt(i + 1)
      [] TypeAt(i) = TokenIdent /\ TypeAt(i + 1) = TokenEqual ->
            QuotedStringAt(i + 2) /\ TypeAt(i + 5) = TokenNewline /\ OpenBodyAt(i + 6)
      [] TypeAt(i) = TokenIdent /\ TypeAt(i + 1) # TokenEqual ->
            /\ TypeAt(SkipLabels(i + 1)) = TokenOBrace
            /\ LET inner == WellFormedBody(SkipLabels(i + 1) + 1, TokenCBrace, <<>>, <<>>)
               IN  IF inner.ok THEN OpenBodyAt(inner.next)
                   ELSE OpenBodyAt(SkipLabels(i + 1) + 1)
      [] OTHER -> FALSE

\* the stream starts with a block header and an opening brace (at token h) that no
\* closing brace matches before end-of-file; nothing else is wrong with the stream
UnterminatedBlock(h) ==
    /\ TypeAt(1) = TokenIdent
    /\ h = SkipLabels(2)
    /\ TypeAt(h) = TokenOBrace
    /\ ~WellFormedBody(h + 1, TokenCBrace, <<>>, <<>>).ok
    /\ OpenBodyAt(h + 1)

EOFRange == tokens[Len(tokens)].Range

\* C6: for a block header followed by an opening brace with no matching closing
\* brace before end-of-file, the parse returns (it does not panic) with at least one
\* diagnostic and a Block whose nested Body is present and has a source range that
\* ends at the end of the end-of-file token.
C6_UnterminatedBlockToEOF ==
    UnterminatedBlock(SkipLabels(2)) =>
        /\ ~panicked
        /\ RootDone =>
              /\ Len(retval.diags) >= 1
              /\ Len(retval.body.Blocks) >= 1
              /\ retval.body.Blocks[1].TypeRange = tokens[1].Range
              /\ retval.body.Blocks[1].Body.Present
              /\ retval.body.Blocks[1].Body.SrcRange.End = EOFRange.End

(***************************************************************************)
(* Template sequences in block labels.                                     *)
(***************************************************************************)
RECURSIVE SkipLits(_)
\* the first token at or after k that is not a TokenQuotedLit
SkipLits(k) == IF TypeAt(k) = TokenQuotedLit THEN SkipLits(k + 1) ELSE k

RECURSIVE SeqEndAfter(_)
\* the template-sequence-end that closes a template sequence whose content starts
\* at token k and holds no bracket of any kind; 0 if there is none
SeqEndAfter(k) ==
    CASE TypeAt(k) = TokenTemplateSeqEnd -> k
      [] TypeAt(k) \in (Bracketers \cup {TokenEOF}) \ {TokenTemplateSeqEnd} -> 0
      [] OTHER -> SeqEndAfter(k + 1)

\* the token at which the template sequence of the first label of the stream opens
LabelTemplateAt == SkipLits(3)

\* the token after the closing quote of that label; 0 if the label is not closed
AfterTemplateLabel ==
    LET e == SeqEndAfter(LabelTemplateAt + 1)
    IN  IF e # 0 /\ TypeAt(SkipLits(e + 1)) = TokenCQuote THEN SkipLits(e + 1) + 1 ELSE 0

\* the token that ends the line of the block with the template label: the label is
\* followed by nothing or by braces around a well-formed body; 0 otherwise
AfterTemplateBlock ==
    LET k == AfterTemplateLabel
    IN  CASE k = 0 -> 0
          [] k # 0 /\ TypeAt(k) \in {TokenNewline, TokenEOF} -> k
          [] k # 0 /\ TypeAt(k) = TokenOBrace ->
                LET inner == WellFormedBody(k + 1, TokenCBrace, <<>>, <<>>)
                IN  IF inner.ok /\ TypeAt(inner.next) \in {TokenNewline, TokenEOF}
                    THEN inner.next ELSE 0
          [] OTHER -> 0

\* the items after the block with the template label, as a well-formed body
Following == WellFormedBody(AfterTemplateBlock, TokenEOF, <<>>, <<>>)

\* the stream is a block whose first label holds one template sequence, and then,
\* from the next line on, well-formed items only
TemplateInLabel ==
    /\ TypeAt(1) = TokenIdent
    /\ TypeAt(2) = TokenOQuote
    /\ TypeAt(LabelTemplateAt) \in {TokenTemplateInterp, TokenTemplateControl}
    /\ AfterTemplateBlock # 0
    /\ Following.ok
    /\ Distinct(Following.attrs)

\* C7: for a block whose label holds a template sequence with well-formed bracket
\* pairing, the parse returns (it does not panic) with the one diagnostic "Invalid
\* string literal", whose detail tells to double the marker, and every well-formed
\* item that follows the block is in the body: the blocks in the order of the
\* stream after the malformed one, and one map entry for each attribute.
C7_TemplateInLabelRecovers ==
    TemplateInLabel =>
        /\ ~panicked
        /\ RootDone =>
              /\ Len(retval.diags) = 1
              /\ retval.diags[1].Summary = "Invalid string literal"
              /\ retval.diags[1].Detail \in
                    {"Template sequences are not allowed in this string. To include a literal \"!\", double it (as \"!!\") to escape it.",
                     "Template sequences are not allowed in this string. To include a literal \"$\", double it (as \"$$\") to escape it."}
              /\ retval.diags[1].Subject = tokens[LabelTemplateAt].Range
              /\ Len(retval.body.Blocks) = 1 + Len(Following.blocks)
              /\ retval.body.Blocks[1].TypeRange = tokens[1].Range
              /\ \A k \in 1..Len(Following.blocks) :
                    retval.body.Blocks[k + 1].TypeRange = tokens[Following.blocks[k]].Range
              /\ Cardinality(DOMAIN retval.body.Attributes) = Len(Following.attrs)

(***************************************************************************)
(* Escapes in string literals.                                             *)
(***************************************************************************)
\* decodeStringLit has returned
Decoded == entry.fn = "decodeStringLit" /\ retval.kind = "string"

\* decodeStringLit is scanning a character
Scanning == entry.fn = "decodeStringLit" /\ dec.active /\ dec.i <= Len(dec.bytes)

\* the character being scanned
Ch == dec.bytes[dec.i]

\* what the recognized backslash escapes stand for
EscapeTable == [c \in {"n", "r", "t", DQuote, BSlash} |->
                  CASE c = "n" -> "\n" [] c = "r" -> "\r" [] c = "t" -> "\t"
                    [] c = DQuote -> "\"" [] c = BSlash -> "\\"]

\* the scan of a character that resolves a pending backslash
BackslashResolved ==
    (Scanning /\ dec.esc = <<BSlash>> /\ dec'.i = dec.i + 1) =>
        /\ dec.quoted
        /\ dec'.esc = <<>>
        /\ IF Ch \in DOMAIN EscapeTable
           THEN /\ dec'.ret = Append(dec.ret, EscapeTable[Ch])
                /\ dec'.diags = dec.diags
           ELSE /\ dec'.ret = Append(dec.ret, Ch)
                /\ Len(dec'.diags) = Len(dec.diags) + 1
                /\ SubSeq(dec'.diags, 1, Len(dec.diags)) = dec.diags
                /\ dec'.diags[Len(dec'.diags)].Summary = "Invalid escape sequence"

\* the two literals the claim names, decoded
BackslashExamples ==
    (Decoded /\ dec.quoted) =>
        /\ dec.bytes = <<"a", BSlash, "n", "a">> =>
              retval.s = <<"a", "\n", "a">> /\ retval.diags = <<>>
        /\ dec.bytes = <<BSlash, "q">> =>
              /\ retval.s = <<"q">>
              /\ Len(retval.diags) = 1
              /\ retval.diags[1].Summary = "Invalid escape sequence"

\* C8: in quoted mode a pending backslash is resolved by the next character: n, r,
\* t, double quote and backslash give newline, carriage return, tab, quote and
\* backslash with no diagnostic; any other character gives exactly one "Invalid
\* escape sequence" diagnostic and only that character in the output, and decoding
\* goes on. So a, backslash, n, a decodes to a, newline, a with no diagnostics and
\* backslash, q decodes to q with one diagnostic.
C8_BackslashEscapes == [][BackslashResolved]_vars /\ []BackslashExamples

\* backslash-q and backslash-n in one literal: q and newline, one diagnostic
C8_Witness ==
    /\ Decoded
    /\ dec.quoted
    /\ dec.bytes = <<BSlash, "q", BSlash, "n">>
    /\ retval.s = <<"q", "\n">>
    /\ Len(retval.diags) = 1

Markers == {"$", "!"}

\* the scan of a character when no backslash is pending and a marker is involved
MarkerStep ==
    (Scanning /\ dec'.i = dec.i + 1) =>
        /\ (dec.esc = <<>> /\ Ch \in Markers) =>
              dec'.esc = <<Ch>> /\ dec'.ret = dec.ret /\ dec'.diags = dec.diags
        /\ (Len(dec.esc) = 1 /\ dec.esc[1] \in Markers) =>
              /\ dec'.diags = dec.diags
              /\ IF Ch = dec.esc[1]
                 THEN dec'.esc = <<Ch, Ch>> /\ dec'.ret = dec.ret
                 ELSE dec'.esc = <<>> /\ dec'.ret = dec.ret \o <<dec.esc[1], Ch>>
        /\ (Len(dec.esc) = 2 /\ dec.esc[1] \in Markers) =>
              /\ dec'.diags = dec.diags
              /\ dec'.esc = <<>>
              /\ IF Ch = "{"
                 THEN dec'.ret = dec.ret \o <<dec.esc[1], "{">>
                 ELSE dec'.ret = dec.ret \o <<dec.esc[1], dec.esc[1], Ch>>

\* the two literals the claim names, decoded, in both modes
MarkerExamples ==
    Decoded =>
        /\ dec.bytes = <<"$", "$", "{", "a">> =>
              retval.s = <<"$", "{", "a">> /\ retval.diags = <<>>
        /\ dec.bytes = <<"$", "a">> =>
              retval.s = <<"$", "a">> /\ retval.diags = <<>>

\* C9: in both modes a marker ($ or !) seen while no escape is pending is buffered;
\* the same marker again makes the buffer two long; a buffer of two followed by {
\* outputs one marker and {; a buffer of two followed by anything else outputs both
\* markers and that character; a buffer of one followed by a different character
\* outputs the marker and that character. None of these steps adds a diagnostic.
\* So $${a decodes to ${a and $a to $a.
C9_MarkerEscapes == [][MarkerStep]_vars /\ []MarkerExamples

\* a doubled marker before a brace and a single marker before a letter, unquoted
C9_Witness ==
    /\ Decoded
    /\ ~dec.quoted
    /\ dec.bytes = <<"!", "!", "{", "a">>
    /\ retval.s = <<"!", "{", "a">>
    /\ retval.diags = <<>>

\* the literal without the characters of the escape that is pending at its end
BeforePending ==
    decodeRun(decodeBegin(IF dec.quoted THEN TokenQuotedLit ELSE TokenStringLit,
                          SubSeq(dec.bytes, 1, Len(dec.bytes) - Len(dec.esc)),
                          dec.start))

\* C10: when the literal ends while an escape is pending (one or two markers, or in
\* quoted mode a backslash), decodeStringLit returns what the literal without the
\* pending characters decodes to, with the diagnostics of that shorter literal:
\* the pending characters are dropped and nothing is reported for them.
C10_PendingEscapeDropped ==
    (Decoded /\ dec.esc # <<>>) =>
        /\ dec.esc \in {<<"$">>, <<"!">>, <<"$", "$">>, <<"!", "!">>, <<BSlash>>}
        /\ dec.esc = <<BSlash>> => dec.quoted
        /\ SubSeq(dec.bytes, Len(dec.bytes) - Len(dec.esc) + 1, Len(dec.bytes)) = dec.esc
        /\ BeforePending.esc = <<>>
        /\ retval.s = BeforePending.ret
        /\ retval.diags = BeforePending.diags

\* a literal that ends in a doubled marker after an invalid escape, quoted
C10_Witness ==
    /\ Decoded
    /\ dec.quoted
    /\ dec.bytes = <<BSlash, "q", "$", "$">>
    /\ retval.s = <<"q">>
    /\ Len(retval.diags) = 1

(***************************************************************************)
(* Diagnostics and the recovery flag.                                      *)
(***************************************************************************)
\* a diagnostic of the generic kind: this token is unexpected here
Generic(d) ==
    \/ d.Summary \in {"Attribute or block definition required", "Invalid attribute name"}
    \/ /\ d.Summary = "Invalid block definition"
       /\ d.Detail = "Either a quoted string block label or an opening brace is expected here."

\* Every diagnostic of the parser but "Attribute redefined" is followed by a call of
\* recover or recoverAfterBodyItem before anything else is reported, so a generic
\* diagnostic that is not the first of the returned list was added with the flag set.
NoGenericAfterRecovery ==
    RootDone => \A k \in 2..Len(retval.diags) : ~Generic(retval.diags[k])

\* a step in which parseQuotedStringLiteral reads a template opener or end-of-file
\* reports it, whatever the recovery flag
DistinctStillEmitted ==
    (In("parseQuotedStringLiteral", "loop") /\ NextIndex' # NextIndex) =>
        /\ Peek.Type \in {TokenTemplateInterp, TokenTemplateControl} =>
              /\ Len(stack') = Len(stack) + 1
              /\ Len(stack'[Len(stack)].diags) = Len(Top.diags) + 1
              /\ stack'[Len(stack)].diags[Len(Top.diags) + 1].Summary = "Invalid string literal"
        /\ Peek.Type = TokenEOF =>
              /\ Len(retval'.diags) = Len(Top.diags) + 1
              /\ retval'.diags[Len(Top.diags) + 1].Summary = "Unterminated string literal"

\* C11: once the recovery flag is set, no generic unexpected-token diagnostic is
\* added for the rest of the parse ("Attribute or block definition required",
\* "Invalid attribute name", the label-or-brace form of "Invalid block definition"),
\* while a template sequence in a quoted string and an unterminated string are
\* reported whatever the flag.
C11_GenericSuppressedInRecovery ==
    []NoGenericAfterRecovery /\ [][DistinctStillEmitted]_vars

(***************************************************************************)
(* The Blocks finishParsingBodyBlock returns.                              *)
(***************************************************************************)
\* the step is a return of finishParsingBodyBlock
BlockReturns ==
    /\ Running
    /\ Top.fn = "finishParsingBodyBlock"
    /\ Len(stack') = Len(stack) - 1

\* the token read last
LastRead == tokens[Min(Max(NextIndex - 1, 1), Len(tokens))]

\* what holds of the Block a return of finishParsingBodyBlock hands over
BlockReturned ==
    BlockReturns =>
        /\ retval'.kind = "item"
        /\ retval'.item.node = "Block"
        /\ Len(retval'.item.Labels) = Len(retval'.item.LabelRanges)
        /\ retval'.item.TypeRange = Top.ident.Range
        /\ IF Top.oBrace.Type = TokenOBrace
           THEN \* an opening brace was consumed: the body was parsed
                /\ retval'.item.Body.Present
                /\ retval'.item.OpenBraceRange = Top.oBrace.Range
           ELSE \* an error in a label or an unexpected token in the header
                /\ ~retval'.item.Body.Present
                /\ retval'.item.OpenBraceRange = retval'.item.TypeRange
                /\ retval'.item.CloseBraceRange = retval'.item.TypeRange
                /\ HasErrors(retval'.diags) \/ recovery
                \* recoverAfterBodyItem has run: the flag is set and the token read
                \* last is the newline or the end-of-file it stops at
                /\ recovery
                /\ NextIndex > 1
                /\ LastRead.Type \in {TokenNewline, TokenEOF}

\* C12: every Block finishParsingBodyBlock returns on an error path (an error in a
\* label, or an equals sign, a newline or another unexpected token in the header)
\* has an absent Body and both brace ranges equal to its type range, and
\* recoverAfterBodyItem has run before it is returned; every Block returned with a
\* present Body was reached by consuming an opening brace; Labels and LabelRanges
\* always have the same length.
C12_PartialBlocks == [][BlockReturned]_vars

\* a partial Block with a label has been returned
C12_Witness ==
    /\ retval.kind = "item"
    /\ retval.item.node = "Block"
    /\ ~retval.item.Body.Present
    /\ Len(retval.item.Labels) = 1
    /\ recovery

(***************************************************************************)
(* Where recoverAfterBodyItem stops.                                       *)
(***************************************************************************)
RECURSIVE BraceDepth(_, _)
\* opening braces less closing braces among the tokens after token h up to token k
BraceDepth(h, k) ==
    IF k <= h THEN 0
    ELSE BraceDepth(h, k - 1)
           + (IF TypeAt(k) = TokenOBrace THEN 1 ELSE 0)
           - (IF TypeAt(k) = TokenCBrace THEN 1 ELSE 0)

\* the closing brace that matches the opening brace at token h; 0 if there is none
CloseOf(h) ==
    LET cs == {k \in (h + 1)..Len(tokens) : BraceDepth(h, k) = -1}
    IN  IF cs = {} THEN 0 ELSE CHOOSE k \in cs : \A m \in cs : k <= m

\* the place of the token with the range r
IndexOf(r) == r.Start.Column

\* the activations of ParseBody on the stack, innermost last
BodyFrames == {k \in 1..Len(stack) : stack[k].fn = "ParseBody"}

\* the innermost activation of ParseBody
EnclosingBody == stack[CHOOSE k \in BodyFrames : \A m \in BodyFrames : m <= k]

\* the opener at token j has no closer of its kind before token k
OpenAt(j, k) ==
    /\ TypeAt(j) \in Openers
    /\ \A m \in (j + 1)..(k - 1) : TypeAt(m) # oppositeBracket(TypeAt(j))

\* a step of the scan of recoverAfterBodyItem, run for an item of a body
BodyItemScan ==
    (In("recoverAfterBodyItem", "loop") /\ BodyFrames # {} /\ NextIndex' # NextIndex) =>
        \* the scan does not end at a newline inside a bracket it has met and that
        \* no token has closed
        /\ (Len(stack') < Len(stack) /\ Peek.Type = TokenNewline) =>
              \A j \in Top.from..(NextIndex - 1) : ~OpenAt(j, NextIndex)
        \* the closing brace of the enclosing body is not consumed
        /\ (EnclosingBody.end = TokenCBrace
               /\ CloseOf(IndexOf(EnclosingBody.startRange)) # 0) =>
              NextIndex' <= CloseOf(IndexOf(EnclosingBody.startRange))

\* C13: after recoverAfterBodyItem has run for a malformed item of a body, the
\* parser resumes at an item of that same body: the scan never stops at a newline
\* inside a bracket opened during the scan and still unclosed, and never consumes
\* the closing token that ends the enclosing body.
C13_ResumesInSameBody == [][BodyItemScan]_vars

(***************************************************************************)
(* Recovery invoked twice in a row.                                        *)
(***************************************************************************)
\* the place of the token the peeker hands out next
Cursor(i) == Min(i, Len(tokens))

\* the second of two invocations in a row has returned
DoneAgain == Done /\ Again

\* C14 as stated: recover(end) twice in a row, or recoverAfterBodyItem twice in a
\* row, leaves the cursor and the recovery flag as one invocation does.
C14_Idempotent ==
    DoneAgain => (Cursor(NextIndex) = Cursor(entry.cursor) /\ recovery = entry.flag)

\* C14 (amended): both recovery strategies are idempotent in the recovery flag only:
\* it is set after one invocation and after two. The second of two invocations in
\* a row leaves the cursor where the first left it exactly when the first left it
\* at end-of-file; otherwise the second scans on and leaves it further on.
C14_IdempotentAtEOF ==
    DoneAgain =>
        /\ recovery /\ entry.flag
        /\ IF TypeAt(entry.cursor) = TokenEOF
           THEN Cursor(NextIndex) = Cursor(entry.cursor)
           ELSE Cursor(NextIndex) > Cursor(entry.cursor)

\* recover(end) invoked twice: the second invocation has moved the cursor on
C14_Witness ==
    /\ DoneAgain
    /\ entry.fn = "recover"
    /\ TypeAt(entry.cursor) # TokenEOF
    /\ Cursor(NextIndex) > Cursor(entry.cursor)

(***************************************************************************)
(* The depth of the recursion.                                             *)
(***************************************************************************)
\* the number of nested activations of ParseBody
ParseBodyDepth == Cardinality(BodyFrames)

\* some activation, or the value being returned, holds a diagnostic
DiagReported ==
    \/ \E k \in 1..Len(stack) : "diags" \in DOMAIN stack[k] /\ stack[k].diags # <<>>
    \/ "diags" \in DOMAIN retval /\ retval.diags # <<>>

\* C15: for nested empty blocks, the depth of nested ParseBody activations is kept
\* under a maximum that does not grow with the nesting of the source, or the parse
\* reports a diagnostic. The streams of Spec nest up to MaxPieces blocks, which
\* takes MaxPieces + 1 activations when nothing limits them: the maximum is taken
\* to be MaxPieces, the largest one these streams can exceed.
C15_NestingDepthLimited == ParseBodyDepth <= MaxPieces \/ DiagReported

(***************************************************************************)
(* Where recover(end) stops.                                               *)
(***************************************************************************)
\* a token of type ty counts as an opener for recover(end)
CountsAsStart(end, ty) ==
    IF end = TokenTemplateSeqEnd
    THEN ty \in {TokenTemplateInterp, TokenTemplateControl}
    ELSE ty = oppositeBracket(end)

\* among the tokens s..k, the openers for recover(end) less the tokens of type end
NestAfter(end, s, k) ==
    Cardinality({j \in s..k : CountsAsStart(end, TypeAt(j))})
      - Cardinality({j \in s..k : TypeAt(j) = end})

\* recover(end) stops on reading token k, having begun at token s
StopsAt(end, s, k) ==
    \/ TypeAt(k) = TokenEOF
    \/ TypeAt(k) = end /\ NestAfter(end, s, k - 1) = 0

\* the token on which recover(end), begun at token s, stops
StopOf(end, s) ==
    CHOOSE k \in s..Len(tokens) :
        StopsAt(end, s, k) /\ \A m \in s..(k - 1) : ~StopsAt(end, s, m)

\* the token the run of recover under way has read first
ScanStart == Cursor(IF Again THEN entry.cursor ELSE 1)

\* C16: recover(end) sets the recovery flag and scans with a nesting counter that
\* starts at zero: a token of the type opposite to end adds one (for
\* template-sequence-end, a template opener of either kind), a token of type end
\* met with a nonzero counter takes one off, and the scan stops with the cursor
\* just after the first token of type end met with the counter at zero, or just
\* after reading end-of-file.
C16_RecoverScan ==
    entry.fn = "recover" =>
        /\ (In("recover", "loop") /\ NextIndex <= Len(tokens)) =>
              /\ recovery
              /\ Top.nest = NestAfter(Top.end, ScanStart, NextIndex - 1)
              /\ \A m \in ScanStart..(NextIndex - 1) : ~StopsAt(Top.end, ScanStart, m)
        /\ Done =>
              /\ recovery
              /\ NextIndex = StopOf(entry.arg, ScanStart) + 1

\* recover(TokenTemplateSeqEnd) has stopped after the second of two
\* template-sequence-ends, the first having closed a template opener
C16_Witness ==
    /\ Done /\ ~Again
    /\ entry = [fn |-> "recover", arg |-> TokenTemplateSeqEnd]
    /\ TypeAt(1) = TokenTemplateInterp
    /\ TypeAt(2) = TokenTemplateSeqEnd
    /\ TypeAt(3) = TokenTemplateSeqEnd
    /\ Len(tokens) = 5
    /\ NextIndex = 4

(***************************************************************************)
(* The stack of recoverAfterBodyItem.                                      *)
(***************************************************************************)
\* recoverAfterBodyItem reads a token in this step
ItemScanReads == In("recoverAfterBodyItem", "loop") /\ reads' # reads

\* the scan ends with this step
ItemScanEnds == Len(stack') < Len(stack)

\* the stack of open bracketers after the step, when the scan goes on
OpenAfter == stack'[Len(stack)].open

\* what a step of the scan does with an opening bracketer, a newline and
\* end-of-file
PushesAndStops ==
    ItemScanReads =>
        /\ Peek.Type \in {TokenOBrace, TokenOBrack, TokenOParen, TokenOQuote, TokenOHeredoc,
                          TokenTemplateInterp, TokenTemplateControl} =>
              ~ItemScanEnds /\ OpenAfter = Top.open \o <<Peek.Type>>
        /\ ItemScanEnds <=>
              \/ Peek.Type = TokenNewline /\ Top.open = <<>>
              \/ Peek.Type = TokenEOF
        /\ (Peek.Type = TokenNewline /\ Top.open # <<>>) =>
              ~ItemScanEnds /\ OpenAfter = Top.open

\* C17: recoverAfterBodyItem pushes every opening bracketer it reads (brace,
\* bracket, paren, quote, heredoc, template-interpolation-open,
\* template-control-open) on its stack, and its scan ends only on a newline read
\* while the stack is empty or on end-of-file: a newline read while the stack is
\* not empty never ends it.
C17_StopsOutsideBrackets == [][PushesAndStops]_vars

\* the scan has read a newline inside an open brace and goes on
C17_Witness ==
    /\ In("recoverAfterBodyItem", "loop")
    /\ Top.open = <<TokenOBrace>>
    /\ NextIndex > 1
    /\ NextIndex <= Len(tokens)
    /\ TypeAt(NextIndex - 1) = TokenNewline

\* the openers a closing token of type ty matches
MatchingOpeners(ty) ==
    IF ty = TokenTemplateSeqEnd
    THEN {TokenTemplateInterp, TokenTemplateControl}
    ELSE {oppositeBracket(ty)}

\* the places in the stack `open` of the entries a closer of type ty matches
Matches(open, ty) == {j \in 1..Len(open) : open[j] \in MatchingOpeners(ty)}

\* the place of the nearest of them: the topmost
Nearest(open, ty) == CHOOSE j \in Matches(open, ty) : \A m \in Matches(open, ty) : m <= j

\* what a step of the scan does with a closing bracketer that matches an entry
ClosesMatched ==
    (ItemScanReads /\ Peek.Type \in Closers \cup {TokenTemplateSeqEnd}
       /\ Matches(Top.open, Peek.Type) # {}) =>
        /\ ~ItemScanEnds
        /\ OpenAfter = SubSeq(Top.open, 1, Nearest(Top.open, Peek.Type) - 1)

\* what it does with a closing bracketer that matches no entry
KeepsUnmatched ==
    (ItemScanReads /\ Peek.Type \in Closers \cup {TokenTemplateSeqEnd}
       /\ Matches(Top.open, Peek.Type) = {}) =>
        /\ ~ItemScanEnds
        /\ OpenAfter = Top.open

\* C18: in recoverAfterBodyItem a closing bracketer discards only the entries of the
\* stack at and above its nearest matching opener (for template-sequence-end, the
\* nearest template opener of either kind): the entries below are kept, the stack
\* never underflows, and a closer that matches no entry closes no bracket that is
\* still open.
C18_ClosersPopToMatch == [][ClosesMatched /\ KeepsUnmatched]_vars

(***************************************************************************)
(* A token that starts no item.                                            *)
(***************************************************************************)
\* ParseBody has met a token that starts no item, and recover(end) has returned
BodyAbandoned == In("ParseBody", "recovered")

\* that token was the first error of the parse: it was reported, and nothing before
FirstError == Len(Top.diags) = 1 /\ Top.diags[1].Subject = Top.endRange

\* the cursor is at end-of-file
AtEOF == NextIndex >= Len(tokens)

\* C19: when ParseBody(end) meets a token that is neither end, a newline nor an
\* identifier, it consumes it, adds no later item to the body and recovers so that
\* the cursor is just after the end token that closes this very body (bracket pairs
\* inside the abandoned part are skipped, the one the offending token itself opens
\* included), or at end-of-file. Stated for an offending token that is the first
\* error of the parse, and for the bodies of blocks, which a closing brace ends.
C19_AbandonedBodySkipped ==
    (BodyAbandoned /\ FirstError /\ Top.end = TokenCBrace) =>
        /\ IndexOf(Top.endRange) > IndexOf(Top.startRange)
        /\ TypeAt(IndexOf(Top.endRange)) \notin {TokenCBrace, TokenNewline, TokenIdent}
        /\ IF CloseOf(IndexOf(Top.startRange)) # 0
           THEN NextIndex = CloseOf(IndexOf(Top.startRange)) + 1
           ELSE AtEOF

(***************************************************************************)
(* A token that is no part of a string literal.                            *)
(***************************************************************************)
\* parseQuotedStringLiteral has met a token that is no part of a string, and
\* recover(TokenOQuote) has returned
LiteralAbandoned == In("parseQuotedStringLiteral", "recovered")

\* the diagnostic reported last by the innermost activation
LastDiag == Top.diags[Len(Top.diags)]

\* the place of the offending token
Offending == IndexOf(LastDiag.Subject)

\* the first token from s on that is of type ty or end-of-file
FirstOf(ty, s) ==
    CHOOSE k \in s..Len(tokens) :
        /\ TypeAt(k) \in {ty, TokenEOF}
        /\ \A m \in s..(k - 1) : TypeAt(m) \notin {ty, TokenEOF}

\* the offending token is reported, once, and the literal stops
OffendingReported ==
    /\ Top.diags # <<>>
    /\ LastDiag.Summary = "Invalid string literal"
    /\ LastDiag.Detail = "This item is not valid in a string literal."
    /\ TypeAt(Offending) \notin {TokenCQuote, TokenQuotedLit, TokenTemplateControl,
                                 TokenTemplateInterp, TokenEOF}
    /\ \A k \in 1..(Len(Top.diags) - 1) : Top.diags[k].Subject # LastDiag.Subject
    /\ Top.cQuote = ZeroToken

\* C20 as stated: inside parseQuotedStringLiteral a token that is neither literal
\* text, a template opener, a closing quote nor end-of-file gives one "Invalid string
\* literal" diagnostic and stops the literal, and recovery leaves the cursor just
\* after the next opening-quote token of the stream (or at end-of-file when there
\* is none).
C20_RecoversToNextOQuote ==
    LiteralAbandoned =>
        /\ OffendingReported
        /\ NextIndex = FirstOf(TokenOQuote, Offending + 1) + 1

\* C20 (amended): such a token gives one "Invalid string literal" diagnostic and
\* stops the literal, and recovery leaves the cursor where recover(TokenOQuote)
\* stops: just after the first opening-quote token that has as many closing-quote
\* as opening-quote tokens between the offending token and itself (every closing
\* quote read makes the scan pass one later opening quote), or just after
\* end-of-file when there is none.
C20_RecoversToUnnestedOQuote ==
    LiteralAbandoned =>
        /\ OffendingReported
        /\ recovery
        /\ NextIndex = StopOf(TokenOQuote, Offending + 1) + 1

\* the recovery has passed the opening quote that follows a closing quote
C20_Witness ==
    /\ LiteralAbandoned
    /\ TypeAt(Offending + 1) = TokenCQuote
    /\ TypeAt(Offending + 2) = TokenOQuote
    /\ NextIndex > Offending + 3

(***************************************************************************)
(* Source positions in string literals.                                    *)
(***************************************************************************)
\* the source position after the character ch that stands at position p: lines and
\* columns count from 1
After(p, ch) ==
    IF ch \in {"\n", "\r\n"}
    THEN Pos(p.Line + 1, 1, p.Byte + ByteLen(ch))
    ELSE Pos(p.Line, p.Column + 1, p.Byte + ByteLen(ch))

RECURSIVE PosOf(_)
\* the source position of the k-th character of the literal being decoded
PosOf(k) == IF k = 1 THEN dec.start ELSE After(PosOf(k - 1), dec.bytes[k - 1])

\* the step reports an invalid escape
ReportsEscape == Scanning /\ dec'.i = dec.i + 1 /\ Len(dec'.diags) = Len(dec.diags) + 1

\* the subject of the diagnostic it reports
ReportedSubject == dec'.diags[Len(dec'.diags)].Subject

\* the subject starts at the backslash and ends after the offending character, on
\* the line of the backslash
SubjectExact ==
    ReportsEscape =>
        /\ dec.i > 1
        /\ dec.bytes[dec.i - 1] = BSlash
        /\ ReportedSubject.Start = PosOf(dec.i - 1)
        /\ ReportedSubject.End = Pos(PosOf(dec.i).Line, PosOf(dec.i).Column + 1,
                                     PosOf(dec.i).Byte + ByteLen(Ch))

\* C21: the subject of every "Invalid escape sequence" diagnostic of decodeStringLit
\* is exact: it starts at the source position of the backslash (line, 1-based column
\* and byte offset, counted from the start of the token: one column and the byte
\* length for each character, one line with the column reset for each line ending)
\* and ends just after the offending character, also when line endings come before
\* the escape in the literal.
C21_EscapeSubjectExact == [][SubjectExact]_vars

(***************************************************************************)
(* The pending escape of decodeStringLit.                                  *)
(***************************************************************************)
\* what esc may hold between two characters of a literal
EscShapes(quoted) ==
    {<<>>, <<"$">>, <<"!">>, <<"$", "$">>, <<"!", "!">>}
    \cup (IF quoted THEN {<<BSlash>>} ELSE {})

\* the literal has a backslash among the characters scanned so far
BackslashScanned == \E k \in 1..Len(dec.bytes) : k < dec.i /\ dec.bytes[k] = BSlash

\* C22: at every step of decodeStringLit the pending escape is empty, one backslash
\* (in quoted mode only), one marker, or the same marker twice; it is never longer
\* than 2, so the function never panics and never meets a pending escape that
\* starts with another character; in unquoted mode no diagnostic is emitted.
C22_PendingEscapeShape ==
    entry.fn = "decodeStringLit" =>
        /\ dec.esc \in EscShapes(dec.quoted)
        /\ Len(dec.esc) <= 2
        /\ ~dec.panicked
        /\ (Len(dec.esc) > 0 => dec.esc[1] \in {BSlash, "$", "!"})
        /\ (~dec.quoted => dec.diags = <<>>)

\* an unquoted literal with a backslash scanned and a doubled marker pending
C22_Witness ==
    /\ entry.fn = "decodeStringLit"
    /\ ~dec.quoted
    /\ BackslashScanned
    /\ Len(dec.esc) = 2
    /\ Len(dec.ret) > 0

(***************************************************************************)
(* The recovery flag.                                                      *)
(***************************************************************************)
RecoveryFns == {"recover", "recoverOver", "recoverAfterBodyItem"}

\* a recovery function is running
Recovering == stack # <<>> /\ Top.fn \in RecoveryFns

\* no step resets the flag
Sticky == recovery => recovery'

\* recover and recoverAfterBodyItem set the flag with their first statement, and
\* each of the three recovery functions returns with the flag set
SetsFlag ==
    /\ (In("recover", "begin") \/ In("recoverAfterBodyItem", "begin")) => recovery'
    /\ (Recovering /\ Len(stack') < Len(stack)) => recovery'

\* C23: the recovery flag starts false, every call of recover, recoverOver and
\* recoverAfterBodyItem sets it to true, and no step ever resets it to false: once
\* set it stays set for everything that follows.
C23_RecoveryFlagSticky == ~recovery /\ [][Sticky /\ SetsFlag]_vars

\* a recovery function is called once more with the flag already set by the first
\* call, and has run past its first statement with the flag still set
C23_Witness ==
    /\ Again
    /\ entry.flag
    /\ Recovering
    /\ Top.pc = "loop"
    /\ recovery

====
